---- MODULE Spec2Model ----
(***************************************************************************)
(* Model of the Gentoo maintainer utilities of wraeth/misc.                *)
(*                                                                         *)
(* find-proxy-users.py: main() parses the arguments and dispatches to      *)
(* list_user_maintainers / print_xml (both built on get_maintainers) or to *)
(* list_orphan_packages; is_orphan and is_proxy_maintained classify one    *)
(* package from the herds and maintainers of its metadata.xml.             *)
(*                                                                         *)
(* Python str values are modelled as sequences of one-character strings,   *)
(* so that indexing (s[0]), the substring test ('x' in s) and the ordering *)
(* used by list.sort() are computed and not assumed.                       *)
(***************************************************************************)
EXTENDS Integers, Sequences, FiniteSets, TLC

VARIABLES
    tree,         \* the Portage tree: atom -> metadata.xml content (or no file)
    cp_all,       \* the atoms in the order portage.portdb.cp_all() lists them
    args,         \* the argparse namespace built by main()
    pc,           \* the function the script is executing
    i,            \* position of the running "for atom in cp_all" loop
    maintainers,  \* the dict built by get_maintainers: email -> [name, atoms]
    stdout,       \* what has been printed on standard output, in order
    rc            \* the exit status returned by main()

\* socktest.py
VARIABLES
    st_args,      \* the argparse namespace of socktest.py
    dport,        \* the port part of the target, split at its commas
    port,         \* the list of ports to test
    tested,       \* the global list t of ports already tested
    st_log,       \* the sleeps and the connection attempts made, in order
    st_result,    \* what the last call of testConnection returned
    st_failed,    \* whether a connection attempt has failed
    st_n,         \* position of the running "for p in port" loop
    st_pc         \* where socktest.py is

\* check-bugs.py
VARIABLES
    cb_args,        \* the argparse namespace of check-bugs.py
    bugz_output,    \* the bugs returned by get_bugz_output()
    portdb,         \* the Portage tree check-bugs.py reads
    package_list,   \* the global cache of portage.portdb.cp_all()
    fetches,        \* how many times portage.portdb.cp_all() has been called
    found,          \* what find_atom returned for each bug handled so far
    printable_bugs, \* the list main() builds
    cb_out,         \* what check-bugs.py has printed, in order
    cb_n,           \* position of the running "for bug in bugz_output" loop
    cb_pc           \* where check-bugs.py is

\* check-files.py
VARIABLES
    debug,          \* the global debug, set from --debug
    show_output,    \* the global show_output, set from --quiet
    ebuilds,        \* the ebuilds found in the directory
    disk,           \* the 'files' subdirectory on disk
    files,          \* the dict check_files builds: P -> required files
    missing_files,  \* the counter check_files returns
    not_required,   \* the entries reported as no longer required
    cf_out,         \* what check-files.py has printed, in order
    cf_n,           \* position of the running "for ebuild in ebuilds" loop
    cf_pc           \* where check_files is

fpu_vars == <<tree, cp_all, args, pc, i, maintainers, stdout, rc>>

st_vars == <<st_args, dport, port, tested, st_log, st_result, st_failed, st_n, st_pc>>

cb_vars == <<cb_args, bugz_output, portdb, package_list, fetches, found,
             printable_bugs, cb_out, cb_n, cb_pc>>

cf_vars == <<debug, show_output, ebuilds, disk, files, missing_files, not_required,
             cf_out, cf_n, cf_pc>>

vars == <<fpu_vars, st_vars, cb_vars, cf_vars>>

-----------------------------------------------------------------------------
(* Bounds of the model. *)

\* longest herd list of the package of a one-package tree
MaxHerds == 2
\* longest maintainer list of the package of a one-package tree
MaxMaintainers == 2
\* number of packages of the several-package tree
NumAtoms == 2
\* number of <maintainer> elements in the whole several-package tree
MaxTreeEntries == 3

-----------------------------------------------------------------------------
(* Python strings. *)

\* the characters that occur, in code point order ('-' 45, '.' 46, '/' 47,
\* '0'-'9', '@' 64, a-z)
Alphabet ==
    << "-", ".", "/", "0", "1", "2", "3", "4", "5", "6", "7", "8", "9", "@",
       "a", "b", "c", "d", "e", "f", "g", "h", "i", "j", "k", "l", "m", "n",
       "o", "p", "q", "r", "s", "t", "u", "v", "w", "x", "y", "z" >>

ord(c) == CHOOSE n \in 1..Len(Alphabet) : Alphabet[n] = c

\* 'sub in s' of Python: sub occurs in s at some offset k
str_contains(sub, s) ==
    \E k \in 0..(Len(s) - Len(sub)) : \A j \in 1..Len(sub) : s[k + j] = sub[j]

\* 's < t' of Python on str, from character k on, the characters before being
\* equal: lexicographic by code point, a proper prefix first
RECURSIVE str_lt_from(_, _, _)
str_lt_from(s, t, k) ==
    IF k > Len(t)
    THEN FALSE
    ELSE IF k > Len(s)
    THEN TRUE
    ELSE IF s[k] = t[k]
    THEN str_lt_from(s, t, k + 1)
    ELSE ord(s[k]) < ord(t[k])

str_lt(s, t) == str_lt_from(s, t, 1)

\* 's[0]' of Python on a non-empty str: the one-character string
str_first(s) == SubSeq(s, 1, 1)

EmptyStr == << >>
gentoo_org == << "g", "e", "n", "t", "o", "o", ".", "o", "r", "g" >>
example_com == << "e", "x", "a", "m", "p", "l", "e", ".", "c", "o", "m" >>
proxy_maintainers ==
    << "p", "r", "o", "x", "y", "-", "m", "a", "i", "n", "t", "a", "i", "n",
       "e", "r", "s" >>
kde == << "k", "d", "e" >>
maintainer_needed ==
    << "m", "a", "i", "n", "t", "a", "i", "n", "e", "r", "-", "n", "e", "e",
       "d", "e", "d", "@" >> \o gentoo_org
dev_address == << "d", "e", "v", "@" >> \o gentoo_org
outside_address == << "o", "u", "t", "s", "i", "d", "e", "@" >> \o example_com
jane_address == << "j", "a", "n", "e", "@" >> \o example_com

-----------------------------------------------------------------------------
(* The inputs: metadata.xml contents and command lines. *)

\* Python's None, for the optional name of a maintainer and for args.category
None == "None"

\* herd tags of metadata.xml: non-empty str, as list_local_packages prints them
HerdTags == { proxy_maintainers, kde }

SeqsUpTo(S, n) == UNION { [1..k -> S] : k \in 0..n }

\* <maintainer> elements of a one-package tree
Maintainers ==
    { [email |-> e, name |-> None] :
        e \in { maintainer_needed, dev_address, outside_address, EmptyStr } }

\* <maintainer> elements of the several-package tree
TreeMaintainers ==
    { [email |-> maintainer_needed, name |-> None],
      [email |-> outside_address, name |-> "Jane Doe"],
      [email |-> outside_address, name |-> None],
      [email |-> jane_address, name |-> "Jane Roe"] }

\* an atom without metadata.xml
NoMetadata == [exists |-> FALSE, herds |-> << >>, maintainers |-> << >>]

Packages ==
    { [exists |-> TRUE, herds |-> h, maintainers |-> m] :
        h \in SeqsUpTo(HerdTags, MaxHerds), m \in SeqsUpTo(Maintainers, MaxMaintainers) }
    \cup { NoMetadata }

\* the packages of the several-package tree with at most n maintainers; the
\* tree is one without herds, as the Gentoo tree is since herds were retired
TreePackages(n) ==
    { [exists |-> TRUE, herds |-> << >>, maintainers |-> m] :
        m \in SeqsUpTo(TreeMaintainers, n) }
    \cup { NoMetadata }

\* category/name atoms, as the pair that portage.dep.catsplit returns
AtomPool ==
    << << "app-misc", "foo" >>, << "dev-util", "bar" >>,
       << "app-misc", "baz" >>, << "dev-util", "qux" >> >>

Atoms(n) == { AtomPool[k] : k \in 1..n }

\* portage.portdb.categories
categories == { "app-misc", "dev-util" }

\* the trees over the atoms with at most n <maintainer> elements in all
RECURSIVE Trees(_, _)
Trees(atoms, n) ==
    IF atoms = { }
    THEN { << >> }
    ELSE LET a == CHOOSE x \in atoms : TRUE
         IN  UNION { { (a :> p) @@ t :
                         t \in Trees(atoms \ { a }, n - Len(p.maintainers)) } :
                     p \in TreePackages(n) }

Orders(S) ==
    { s \in [1..Cardinality(S) -> S] : \A a, b \in DOMAIN s : a # b => s[a] # s[b] }

\* the command lines of the users, xml and orphans sub-commands; an address
\* that is not given (None) is the empty str: "if args.address" treats both alike
CommandLines ==
    { [mode |-> m, address |-> a, category |-> c, installed |-> FALSE] :
        m \in { "users", "xml" }, a \in { EmptyStr, outside_address },
        c \in { None, "app-misc", "bogus" } }
    \cup
    { [mode |-> "orphans", address |-> EmptyStr, category |-> c, installed |-> b] :
        c \in { None, "app-misc", "bogus" }, b \in BOOLEAN }

-----------------------------------------------------------------------------
(* Classification of one package. *)

\* is_orphan without the test of the single maintainer's email
is_orphan_any_single(xml) ==
    LET herds == xml.herds
        maints == xml.maintainers
    IN  IF \/ Len(herds) = 0
           \/ (Len(herds) = 1 /\ str_first(herds[1]) = proxy_maintainers)
        THEN IF Len(maints) = 0 THEN TRUE ELSE Len(maints) = 1
        ELSE FALSE

\* is_orphan without the test of the herds
is_orphan_any_herds(xml) ==
    LET maints == xml.maintainers
    IN  IF Len(maints) = 0
        THEN TRUE
        ELSE Len(maints) = 1 /\ maints[1].email = maintainer_needed

\* is_orphan without the branch for an empty maintainer list
is_orphan_no_empty(xml) ==
    LET herds == xml.herds
        maints == xml.maintainers
    IN  IF \/ Len(herds) = 0
           \/ (Len(herds) = 1 /\ str_first(herds[1]) = proxy_maintainers)
        THEN Len(maints) = 1 /\ maints[1].email = maintainer_needed
        ELSE FALSE

\* is_orphan testing the first maintainer without len(maintainers) == 1
is_orphan_first_maintainer(xml) ==
    LET herds == xml.herds
        maints == xml.maintainers
    IN  IF \/ Len(herds) = 0
           \/ (Len(herds) = 1 /\ str_first(herds[1]) = proxy_maintainers)
        THEN IF Len(maints) = 0
             THEN TRUE
             ELSE maints[1].email = maintainer_needed
        ELSE FALSE

\* is_orphan comparing herds[0] and without len(herds) == 1
is_orphan_first_herd(xml) ==
    LET herds == xml.herds
        maints == xml.maintainers
    IN  IF \/ Len(herds) = 0
           \/ herds[1] = proxy_maintainers
        THEN IF Len(maints) = 0
             THEN TRUE
             ELSE Len(maints) = 1 /\ maints[1].email = maintainer_needed
        ELSE FALSE

\* herds[0] is a str, so herds[0][0] is its first character
is_orphan(xml) ==
    LET herds == xml.herds
        maints == xml.maintainers
    IN  IF \/ Len(herds) = 0
           \/ (Len(herds) = 1 /\ str_first(herds[1]) = proxy_maintainers)
        THEN IF Len(maints) = 0
             THEN TRUE
             ELSE Len(maints) = 1 /\ maints[1].email = maintainer_needed
        ELSE FALSE

\* is_proxy_maintained without the test of the email
is_proxy_maintained_any(xml) == Len(xml.maintainers) > 0

\* is_proxy_maintained returning from the first iteration of its loop
is_proxy_maintained_first(xml) ==
    /\ Len(xml.maintainers) > 0
    /\ ~ str_contains(gentoo_org, xml.maintainers[1].email)

is_proxy_maintained(xml) ==
    /\ Len(xml.maintainers) > 0
    /\ \E k \in 1..Len(xml.maintainers) :
           ~ str_contains(gentoo_org, xml.maintainers[k].email)

is_in_category(atom, category) == atom[1] = category

-----------------------------------------------------------------------------
(* get_maintainers: the dict from email to [name, atoms]. *)

\* A dict is the sequence of its items in insertion order, as Python keeps it.
\* list(m.keys())
keys(m) == [k \in 1..Len(m) |-> m[k].email]

has_key(m, email) == \E k \in 1..Len(m) : m[k].email = email

\* m[email], for a key of m
item(m, email) == m[CHOOSE k \in 1..Len(m) : m[k].email = email]

\* try: maintainers[email] / except KeyError: maintainers[email] = [name, []]
\* and then maintainers[email][1].append(atom)
add_atom(m, email, name, atom) ==
    IF has_key(m, email)
    THEN [k \in 1..Len(m) |->
            IF m[k].email = email
            THEN [m[k] EXCEPT !.atoms = Append(@, atom)]
            ELSE m[k]]
    ELSE Append(m, [email |-> email, name |-> name, atoms |-> << atom >>])

\* the loop over xml.maintainers() of the --address branch, from maintainer k on
RECURSIVE scan_address(_, _, _, _, _)
scan_address(m, maints, k, atom, address) ==
    IF k > Len(maints)
    THEN m
    ELSE scan_address(
             IF maints[k].email = address
             THEN add_atom(m, address, maints[k].name, atom)
             ELSE m,
             maints, k + 1, atom, address)

\* scan_proxy leaving its loop after the first maintainer it adds
RECURSIVE scan_proxy_break(_, _, _, _)
scan_proxy_break(m, maints, k, atom) ==
    IF k > Len(maints)
    THEN m
    ELSE IF ~ str_contains(gentoo_org, maints[k].email)
    THEN add_atom(m, maints[k].email, maints[k].name, atom)
    ELSE scan_proxy_break(m, maints, k + 1, atom)

\* the loop over xml.maintainers() of the is_proxy_maintained branch
RECURSIVE scan_proxy(_, _, _, _)
scan_proxy(m, maints, k, atom) ==
    IF k > Len(maints)
    THEN m
    ELSE scan_proxy(
             IF ~ str_contains(gentoo_org, maints[k].email)
             THEN add_atom(m, maints[k].email, maints[k].name, atom)
             ELSE m,
             maints, k + 1, atom)

\* one iteration of "for atom in cp_all" of get_maintainers
get_maintainers_body(m, atom, a) ==
    IF a.category # None /\ ~ is_in_category(atom, a.category)
    THEN m
    ELSE IF ~ tree[atom].exists
    THEN m
    ELSE IF a.address # EmptyStr
    THEN scan_address(m, tree[atom].maintainers, 1, atom, a.address)
    ELSE IF is_proxy_maintained(tree[atom])
    THEN scan_proxy(m, tree[atom].maintainers, 1, atom)
    ELSE m

\* get_maintainers run to its return over the atoms in the given order
RECURSIVE get_maintainers_from(_, _, _, _)
get_maintainers_from(m, order, k, a) ==
    IF k > Len(order)
    THEN m
    ELSE get_maintainers_from(get_maintainers_body(m, order[k], a), order, k + 1, a)

\* l.sort() left out
list_sort_none(l) == l

\* l.sort() on a list of str: ascending by str_lt, equal items in their order
RECURSIVE list_sort(_)
list_sort(l) ==
    IF l = << >>
    THEN << >>
    ELSE LET least == CHOOSE k \in 1..Len(l) :
                          /\ \A j \in 1..Len(l) : ~ str_lt(l[j], l[k])
                          /\ \A j \in 1..(k - 1) : l[j] # l[k]
         IN  << l[least] >>
                 \o list_sort(SubSeq(l, 1, least - 1) \o SubSeq(l, least + 1, Len(l)))

\* the maintainers printed by list_user_maintainers (no address) and print_xml:
\* maintainer_list = list(maintainers.keys()); maintainer_list.sort(); for ...
report(m, with_atoms) ==
    LET maintainer_list == list_sort(keys(m))
    IN  [k \in 1..Len(maintainer_list) |->
            [email |-> maintainer_list[k],
             name |-> item(m, maintainer_list[k]).name,
             atoms |-> IF with_atoms THEN item(m, maintainer_list[k]).atoms ELSE << >>]]

-----------------------------------------------------------------------------
(* The script. *)

NoArgs == [mode |-> "none", address |-> EmptyStr, category |-> None, installed |-> FALSE]

\* the other scripts are not running
st_idle ==
    /\ st_args = << >> /\ dport = << >> /\ port = << >> /\ tested = << >>
    /\ st_log = << >> /\ st_result = << >> /\ st_failed = FALSE
    /\ st_n = 0 /\ st_pc = "idle"

cb_idle ==
    /\ cb_args = << >> /\ bugz_output = << >> /\ portdb = << >>
    /\ package_list = << >> /\ fetches = 0 /\ found = << >>
    /\ printable_bugs = << >> /\ cb_out = << >> /\ cb_n = 0 /\ cb_pc = "idle"

cf_idle ==
    /\ debug = FALSE /\ show_output = TRUE
    /\ ebuilds = << >> /\ disk = << >> /\ files = << >>
    /\ missing_files = 0 /\ not_required = << >> /\ cf_out = << >>
    /\ cf_n = 0 /\ cf_pc = "idle"

fpu_idle ==
    /\ tree = << >> /\ cp_all = << >> /\ args = << >> /\ pc = "idle"
    /\ i = 0 /\ maintainers = << >> /\ stdout = << >> /\ rc = 0

InitWith(trees) ==
    /\ tree \in trees
    /\ cp_all \in Orders(DOMAIN tree)
    /\ args = NoArgs
    /\ pc = "main"
    /\ i = 1
    /\ maintainers = << >>
    /\ stdout = << >>
    /\ rc = 0
    /\ st_idle /\ cb_idle /\ cf_idle

\* a tree of several packages
Init == InitWith(Trees(Atoms(NumAtoms), MaxTreeEntries))

\* a tree of one package, with any herds and maintainers
InitClassify == InitWith([Atoms(1) -> Packages])

\* main(): parse the command line, check the category, dispatch on the mode
main ==
    /\ pc = "main"
    /\ \E a \in CommandLines :
        /\ args' = a
        /\ IF a.category # None /\ a.category \notin categories
           THEN pc' = "exit" /\ rc' = -3
           ELSE /\ pc' = CASE a.mode = "users" -> "get_maintainers"
                           [] a.mode = "xml" -> "print_xml"
                           [] a.mode = "orphans" -> "list_orphan_packages"
                /\ rc' = rc
    /\ UNCHANGED << tree, cp_all, i, maintainers, stdout >>
    /\ UNCHANGED << st_vars, cb_vars, cf_vars >>

\* print_xml up to its call of get_maintainers: --portdir must be a git repository
print_xml_enter ==
    /\ pc = "print_xml"
    /\ \E isdir \in BOOLEAN :
        IF ~ isdir
        THEN pc' = "exit" /\ rc' = 1
        ELSE pc' = "get_maintainers" /\ rc' = rc
    /\ UNCHANGED << tree, cp_all, args, i, maintainers, stdout >>
    /\ UNCHANGED << st_vars, cb_vars, cf_vars >>

\* one iteration of the loop of get_maintainers
get_maintainers_iter ==
    /\ pc = "get_maintainers"
    /\ i <= Len(cp_all)
    /\ maintainers' = get_maintainers_body(maintainers, cp_all[i], args)
    /\ i' = i + 1
    /\ UNCHANGED << tree, cp_all, args, pc, stdout, rc >>
    /\ UNCHANGED << st_vars, cb_vars, cf_vars >>

\* list_user_maintainers after get_maintainers has returned
list_user_maintainers ==
    /\ pc = "get_maintainers"
    /\ i > Len(cp_all)
    /\ args.mode = "users"
    /\ IF args.address # EmptyStr
       THEN stdout' =
                IF has_key(maintainers, args.address)
                THEN << item(maintainers, args.address) >>
                ELSE << >>
       ELSE \E list_atoms \in BOOLEAN : stdout' = report(maintainers, list_atoms)
    /\ pc' = "exit"
    /\ rc' = 0
    /\ UNCHANGED << tree, cp_all, args, i, maintainers >>
    /\ UNCHANGED << st_vars, cb_vars, cf_vars >>

\* print_xml after get_maintainers has returned
print_xml ==
    /\ pc = "get_maintainers"
    /\ i > Len(cp_all)
    /\ args.mode = "xml"
    /\ stdout' = report(maintainers, TRUE)
    /\ pc' = "exit"
    /\ rc' = 0
    /\ UNCHANGED << tree, cp_all, args, i, maintainers >>
    /\ UNCHANGED << st_vars, cb_vars, cf_vars >>

\* one iteration of the loop of list_orphan_packages
list_orphan_packages_iter ==
    /\ pc = "list_orphan_packages"
    /\ i <= Len(cp_all)
    /\ LET atom == cp_all[i]
       IN  IF args.category # None /\ ~ is_in_category(atom, args.category)
           THEN stdout' = stdout
           ELSE IF ~ tree[atom].exists
           THEN stdout' = stdout
           ELSE IF is_orphan(tree[atom])
           THEN IF args.installed
                THEN \E is_installed \in BOOLEAN :
                        stdout' = IF is_installed THEN Append(stdout, atom) ELSE stdout
                ELSE stdout' = Append(stdout, atom)
           ELSE stdout' = stdout
    /\ i' = i + 1
    /\ UNCHANGED << tree, cp_all, args, pc, maintainers, rc >>
    /\ UNCHANGED << st_vars, cb_vars, cf_vars >>

list_orphan_packages_return ==
    /\ pc = "list_orphan_packages"
    /\ i > Len(cp_all)
    /\ pc' = "exit"
    /\ rc' = 0
    /\ UNCHANGED << tree, cp_all, args, i, maintainers, stdout >>
    /\ UNCHANGED << st_vars, cb_vars, cf_vars >>

Next ==
    \/ main
    \/ print_xml_enter
    \/ get_maintainers_iter
    \/ list_user_maintainers
    \/ print_xml
    \/ list_orphan_packages_iter
    \/ list_orphan_packages_return

Spec == Init /\ [][Next]_vars

SpecClassify == InitClassify /\ [][Next]_vars

-----------------------------------------------------------------------------
(* Vocabulary of the properties. *)

\* the atoms that have a metadata.xml
Listed == { a \in DOMAIN tree : tree[a].exists }

internal(email) == str_contains(gentoo_org, email)

emails_of(xml) == { xml.maintainers[k].email : k \in 1..Len(xml.maintainers) }

external_emails(xml) == { e \in emails_of(xml) : ~ internal(e) }

herd_tags(xml) == { xml.herds[k] : k \in 1..Len(xml.herds) }

\* the atom passes the --category filter of the command line
in_category(a) == args.category = None \/ is_in_category(a, args.category)

\* the script has finished the named sub-command normally
finished(mode) == pc = "exit" /\ rc = 0 /\ args.mode = mode

\* get_maintainers has returned from a run without --address
aggregated ==
    /\ pc = "exit" /\ rc = 0
    /\ args.mode \in { "users", "xml" }
    /\ args.address = EmptyStr

\* list_orphan_packages has printed the atom
printed(a) == \E k \in 1..Len(stdout) : stdout[k] = a

count(l, x) == Cardinality({ k \in 1..Len(l) : l[k] = x })

\* the keys of the dict under which the atom is listed
keys_with(a) ==
    { maintainers[k].email : k \in { j \in 1..Len(maintainers) :
                                       count(maintainers[j].atoms, a) > 0 } }

\* the last maintainer in document order whose email is not internal
last_external(xml) ==
    xml.maintainers[CHOOSE k \in 1..Len(xml.maintainers) :
        /\ ~ internal(xml.maintainers[k].email)
        /\ \A j \in (k + 1)..Len(xml.maintainers) : internal(xml.maintainers[j].email)].email

-----------------------------------------------------------------------------
(* C1: is_orphan and is_proxy_maintained are never both true of a package, *)
(* so every package is orphaned, proxy-maintained or (both false)          *)
(* officially maintained.                                                  *)
C1_OneOfThreeStates ==
    \A a \in Listed : ~ (is_orphan(tree[a]) /\ is_proxy_maintained(tree[a]))

\* an orphan with a maintainer entry has been printed by list_orphan_packages
C1_Witness ==
    /\ finished("orphans")
    /\ \E a \in Listed :
        /\ printed(a)
        /\ Len(tree[a].maintainers) = 1
        /\ ~ is_proxy_maintained(tree[a])

(* C2, as claimed: a package all of whose maintainers have an email        *)
(* containing 'gentoo.org' is neither orphaned nor proxy-maintained,       *)
(* whatever its herds.                                                     *)
C2_AllInternalIsOfficial ==
    \A a \in Listed :
        (\A e \in emails_of(tree[a]) : internal(e))
            => ~ is_orphan(tree[a]) /\ ~ is_proxy_maintained(tree[a])

(* C2, amended: such a package is never proxy-maintained, whatever its     *)
(* herds; it is not orphaned when it has two or more maintainers or one    *)
(* maintainer other than maintainer-needed@gentoo.org, and it is orphaned  *)
(* when it has no herd and its maintainer list is empty or is exactly      *)
(* maintainer-needed@gentoo.org.                                           *)
C2_AllInternalNeverProxy ==
    \A a \in Listed :
        LET xml == tree[a]
            unassigned ==
                \/ Len(xml.maintainers) = 0
                \/ Len(xml.maintainers) = 1
                     /\ xml.maintainers[1].email = maintainer_needed
        IN  (\A e \in emails_of(xml) : internal(e))
                => /\ ~ is_proxy_maintained(xml)
                   /\ ~ unassigned => ~ is_orphan(xml)
                   /\ unassigned /\ Len(xml.herds) = 0 => is_orphan(xml)
                   /\ aggregated => maintainers = << >>

\* get_maintainers has passed over a package of two internal maintainers in a herd
C2_Witness ==
    /\ aggregated
    /\ \E a \in Listed :
        /\ in_category(a)
        /\ Len(tree[a].maintainers) = 2
        /\ Len(tree[a].herds) > 0
        /\ \A e \in emails_of(tree[a]) : internal(e)

(* C3, as claimed: a package with more than one herd, or without the       *)
(* 'proxy-maintainers' herd, is neither orphaned nor proxy-maintained,     *)
(* whatever its maintainers.                                               *)
C3_HerdsDecideOfficial ==
    \A a \in Listed :
        (Len(tree[a].herds) > 1 \/ proxy_maintainers \notin herd_tags(tree[a]))
            => ~ is_orphan(tree[a]) /\ ~ is_proxy_maintained(tree[a])

(* C3, amended: a package with more than one herd, or with herds none of   *)
(* which is 'proxy-maintainers', is not orphaned whatever its maintainers; *)
(* is_proxy_maintained does not look at the herds: it is still true        *)
(* exactly when some maintainer's email lacks 'gentoo.org'.                *)
C3_HerdsOnlyDisqualifyOrphan ==
    \A a \in Listed :
        LET xml == tree[a]
        IN  (\/ Len(xml.herds) > 1
             \/ Len(xml.herds) > 0 /\ proxy_maintainers \notin herd_tags(xml))
                => /\ ~ is_orphan(xml)
                   /\ is_proxy_maintained(xml) <=> external_emails(xml) # { }
                   /\ finished("orphans") => ~ printed(a)

\* list_orphan_packages has passed over a package of another herd without maintainers
C3_Witness ==
    /\ finished("orphans")
    /\ \E a \in Listed :
        /\ in_category(a)
        /\ tree[a].herds = << kde >>
        /\ tree[a].maintainers = << >>
        /\ ~ printed(a)

(* C4: a package with no maintainers and no herds is orphaned and not      *)
(* proxy-maintained: list_orphan_packages prints it and get_maintainers    *)
(* lists it under no key.                                                  *)
C4_EmptyIsOrphan ==
    \A a \in Listed :
        (tree[a].herds = << >> /\ tree[a].maintainers = << >>)
            => /\ is_orphan(tree[a])
               /\ ~ is_proxy_maintained(tree[a])
               /\ keys_with(a) = { }
               /\ (finished("orphans") /\ in_category(a) /\ ~ args.installed)
                      => printed(a)

\* list_orphan_packages has printed such a package next to one it did not print
C4_Witness ==
    /\ finished("orphans")
    /\ \E a, b \in Listed :
        /\ tree[a].herds = << >> /\ tree[a].maintainers = << >>
        /\ printed(a)
        /\ in_category(b) /\ ~ printed(b)

(* C5: a package whose herds are exactly ['proxy-maintainers'] and whose   *)
(* only maintainer is maintainer-needed@gentoo.org is orphaned and not     *)
(* proxy-maintained.                                                       *)
C5_ProxyHerdMaintainerNeededIsOrphan ==
    \A a \in Listed :
        (/\ tree[a].herds = << proxy_maintainers >>
         /\ Len(tree[a].maintainers) = 1
         /\ tree[a].maintainers[1].email = maintainer_needed)
            => is_orphan(tree[a]) /\ ~ is_proxy_maintained(tree[a])

(* C6, as claimed: a package with no herd other than 'proxy-maintainers'   *)
(* all of whose one or more maintainers carry a sentinel email             *)
(* (maintainer-needed@gentoo.org or the empty string) is orphaned, is not  *)
(* proxy-maintained and gets no key in the dict of get_maintainers.        *)
C6_AllSentinelIsOrphan ==
    \A a \in Listed :
        (/\ herd_tags(tree[a]) \subseteq { proxy_maintainers }
         /\ Len(tree[a].maintainers) > 0
         /\ emails_of(tree[a]) \subseteq { maintainer_needed, EmptyStr })
            => /\ is_orphan(tree[a])
               /\ ~ is_proxy_maintained(tree[a])
               /\ aggregated => keys_with(a) = { }

(* C6, amended: a package with no herd other than 'proxy-maintainers' all  *)
(* of whose one or more maintainers carry maintainer-needed@gentoo.org is  *)
(* never proxy-maintained and gets no key in the dict of get_maintainers   *)
(* run without --address; it is orphaned only if that maintainer is the    *)
(* only one, and it is orphaned if so and the package has no herd. The     *)
(* empty string is no sentinel: a maintainer with an empty email makes     *)
(* the package proxy-maintained and not orphaned.                          *)
C6_MaintainerNeededNeverProxy ==
    \A a \in Listed :
        LET xml == tree[a]
        IN  /\ (/\ herd_tags(xml) \subseteq { proxy_maintainers }
                /\ Len(xml.maintainers) > 0
                /\ emails_of(xml) = { maintainer_needed })
                   => /\ ~ is_proxy_maintained(xml)
                      /\ aggregated => keys_with(a) = { }
                      /\ is_orphan(xml) => Len(xml.maintainers) = 1
                      /\ (Len(xml.maintainers) = 1 /\ Len(xml.herds) = 0)
                             => is_orphan(xml)
            /\ EmptyStr \in emails_of(xml)
                   => is_proxy_maintained(xml) /\ ~ is_orphan(xml)

\* get_maintainers has passed over a package with maintainer-needed listed twice
C6_Witness ==
    /\ aggregated
    /\ \E a \in Listed :
        /\ in_category(a)
        /\ Len(tree[a].herds) = 0
        /\ Len(tree[a].maintainers) = 2
        /\ emails_of(tree[a]) = { maintainer_needed }
        /\ ~ is_orphan(tree[a])

(* C7: a package whose herds are exactly ['proxy-maintainers'] and that    *)
(* has a maintainer whose email lacks 'gentoo.org' and is no sentinel is   *)
(* proxy-maintained and not orphaned, whatever other maintainers come      *)
(* before or after it.                                                     *)
C7_ExternalMaintainerIsProxy ==
    \A a \in Listed :
        (/\ tree[a].herds = << proxy_maintainers >>
         /\ \E e \in emails_of(tree[a]) :
                ~ internal(e) /\ e \notin { maintainer_needed, EmptyStr })
            => /\ is_proxy_maintained(tree[a])
               /\ ~ is_orphan(tree[a])
               /\ (aggregated /\ in_category(a)) => keys_with(a) # { }

\* get_maintainers has listed a package whose external maintainer comes second
C7_Witness ==
    /\ aggregated
    /\ \E a \in Listed :
        /\ tree[a].herds = << proxy_maintainers >>
        /\ Len(tree[a].maintainers) = 2
        /\ internal(tree[a].maintainers[1].email)
        /\ tree[a].maintainers[2].email = outside_address
        /\ keys_with(a) = { outside_address }

(* C8, as claimed: after get_maintainers without --address, every          *)
(* proxy-maintained package is listed under exactly one key, the email of  *)
(* its last maintainer whose email is not internal.                        *)
C8_GroupedUnderLastExternal ==
    aggregated =>
        \A a \in Listed :
            (in_category(a) /\ is_proxy_maintained(tree[a]))
                => keys_with(a) = { last_external(tree[a]) }

(* C8, amended: after get_maintainers without --address, every             *)
(* proxy-maintained package is listed under the email of each of its       *)
(* maintainers whose email is not internal and under no other key; a       *)
(* package that is not proxy-maintained is listed under no key.            *)
C8_GroupedUnderEveryExternal ==
    aggregated =>
        \A a \in Listed :
            IF in_category(a) /\ is_proxy_maintained(tree[a])
            THEN keys_with(a) = external_emails(tree[a])
            ELSE keys_with(a) = { }

\* get_maintainers has listed a package of two external maintainers under two keys
C8_Witness ==
    /\ aggregated
    /\ \E a \in Listed :
        /\ external_emails(tree[a]) = { outside_address, jane_address }
        /\ keys_with(a) = { outside_address, jane_address }

(* C9, as claimed: an orphan has no herd other than 'proxy-maintainers',   *)
(* and herds that hold only that tag, once or repeated, do not change      *)
(* whether the package is orphaned.                                        *)
C9_ProxyHerdsKeepOrphan ==
    \A a \in Listed :
        /\ is_orphan(tree[a]) => herd_tags(tree[a]) \subseteq { proxy_maintainers }
        /\ herd_tags(tree[a]) = { proxy_maintainers }
               => is_orphan(tree[a]) = is_orphan([tree[a] EXCEPT !.herds = << >>])

(* C9, amended: an orphan has no herd other than 'proxy-maintainers' and   *)
(* at most one herd entry: two or more herd entries disqualify orphan      *)
(* status also when each of them is 'proxy-maintainers'.                   *)
C9_OrphanHasAtMostOneProxyHerd ==
    \A a \in Listed :
        /\ is_orphan(tree[a]) => herd_tags(tree[a]) \subseteq { proxy_maintainers }
        /\ Len(tree[a].herds) > 1 => ~ is_orphan(tree[a])
        /\ (finished("orphans") /\ printed(a)) => Len(tree[a].herds) <= 1

\* list_orphan_packages has passed over a package whose only flaw is a repeated herd
C9_Witness ==
    /\ finished("orphans")
    /\ \E a \in Listed :
        /\ in_category(a)
        /\ tree[a].herds = << proxy_maintainers, proxy_maintainers >>
        /\ tree[a].maintainers = << >>
        /\ ~ printed(a)

\* what get_maintainers returns when cp_all lists the atoms in the given order
returned_for(order) == get_maintainers_from(<< >>, order, 1, args)

\* one order of the atoms of the tree, with which the run in every order is
\* compared: runs that all agree with it agree with each other
reference_order == [k \in 1..Cardinality(DOMAIN tree) |-> AtomPool[k]]

(* C10, as claimed: the report of the maintainers sorted by email (emails, *)
(* display names, lists of atoms) is the same for any two orders in which  *)
(* get_maintainers visits the packages: the run in the order of cp_all     *)
(* reports what the run in the reference order reports.                    *)
C10_ReportIndependentOfOrder ==
    (pc = "exit" /\ rc = 0 /\ args.mode \in { "users", "xml" })
        => report(maintainers, TRUE) = report(returned_for(reference_order), TRUE)

(* C10, amended: for any two orders in which get_maintainers visits the    *)
(* packages the report lists the same emails in the same order, each with  *)
(* the same atoms the same number of times; the order of the atoms of one  *)
(* email and its display name follow the order of the visits.              *)
C10_SortedKeysIndependentOfOrder ==
    (pc = "exit" /\ rc = 0 /\ args.mode \in { "users", "xml" })
        => \A mine \in { report(maintainers, TRUE) } :
           \A other \in { report(returned_for(reference_order), TRUE) } :
               /\ args.mode = "xml" => stdout = mine
               /\ Len(mine) = Len(other)
               /\ \A k \in 1..Len(mine) :
                    /\ mine[k].email = other[k].email
                    /\ \A a \in DOMAIN tree :
                           count(mine[k].atoms, a) = count(other[k].atoms, a)

\* print_xml has printed two maintainers whose keys were inserted in the other order
C10_Witness ==
    /\ finished("xml")
    /\ Len(stdout) = 2
    /\ keys(maintainers) = << outside_address, jane_address >>
    /\ stdout[1].email = jane_address

\* the name of the first <maintainer> with the email that get_maintainers meets
\* when it visits the proxy-maintained packages in the order of cp_all
first_name(email) ==
    LET visited(k) ==
            /\ tree[cp_all[k]].exists
            /\ in_category(cp_all[k])
            /\ is_proxy_maintained(tree[cp_all[k]])
            /\ email \in emails_of(tree[cp_all[k]])
        first == CHOOSE k \in 1..Len(cp_all) :
                     visited(k) /\ \A j \in 1..(k - 1) : ~ visited(j)
        maints == tree[cp_all[first]].maintainers
    IN  maints[CHOOSE k \in 1..Len(maints) :
                   /\ maints[k].email = email
                   /\ \A j \in 1..(k - 1) : maints[j].email # email].name

\* every key of the dict is an external email, lists only proxy-maintained
\* packages that have a maintainer with that email, and carries the name of the
\* first maintainer met with that email
keys_are_external_maintainers ==
    \A k \in 1..Len(maintainers) :
        /\ ~ internal(maintainers[k].email)
        /\ \A j \in 1..Len(maintainers[k].atoms) :
               \A a \in { maintainers[k].atoms[j] } :
                   /\ a \in Listed
                   /\ is_proxy_maintained(tree[a])
                   /\ maintainers[k].email \in emails_of(tree[a])
        /\ maintainers[k].name = first_name(maintainers[k].email)

(* C16: after get_maintainers without --address every key of the dict is  *)
(* an email without 'gentoo.org', every atom under a key is a              *)
(* proxy-maintained package with a maintainer of that email, no atom is    *)
(* listed twice under one key, and the name stored with a key is that of   *)
(* the first maintainer met with that email.                               *)
C16_KeysListEachPackageOnce ==
    aggregated =>
        /\ keys_are_external_maintainers
        /\ \A k \in 1..Len(maintainers) :
               \A a \in DOMAIN tree : count(maintainers[k].atoms, a) <= 1

-----------------------------------------------------------------------------
(* socktest.py: the Python str methods it uses. *)

Digits == << "0", "1", "2", "3", "4", "5", "6", "7", "8", "9" >>

Lowercase ==
    << "a", "b", "c", "d", "e", "f", "g", "h", "i", "j", "k", "l", "m", "n",
       "o", "p", "q", "r", "s", "t", "u", "v", "w", "x", "y", "z" >>

Uppercase ==
    << "A", "B", "C", "D", "E", "F", "G", "H", "I", "J", "K", "L", "M", "N",
       "O", "P", "Q", "R", "S", "T", "U", "V", "W", "X", "Y", "Z" >>

is_digit(c) == \E d \in 1..Len(Digits) : Digits[d] = c

is_alpha(c) == \E d \in 1..Len(Lowercase) : Lowercase[d] = c \/ Uppercase[d] = c

\* n.isdigit(): not empty and every character a digit
isdigit(n) == Len(n) > 0 /\ \A k \in 1..Len(n) : is_digit(n[k])

\* n.isalnum(): not empty and every character a letter or a digit
isalnum(n) == Len(n) > 0 /\ \A k \in 1..Len(n) : is_digit(n[k]) \/ is_alpha(n[k])

\* n.lower()
lower(n) ==
    [k \in 1..Len(n) |->
        IF \E d \in 1..Len(Uppercase) : Uppercase[d] = n[k]
        THEN Lowercase[CHOOSE d \in 1..Len(Uppercase) : Uppercase[d] = n[k]]
        ELSE n[k]]

\* int(n) of a str of decimal digits, read up to its character k
RECURSIVE int_upto(_, _)
int_upto(n, k) ==
    IF k = 0
    THEN 0
    ELSE 10 * int_upto(n, k - 1) + ((CHOOSE d \in 1..Len(Digits) : Digits[d] = n[k]) - 1)

int(n) == int_upto(n, Len(n))

\* int(n) raises ValueError on a str that is not a number
int_raises(n) == ~ isdigit(n)

\* n.split(sep), the pieces of n from its character k on
RECURSIVE split_from(_, _, _)
split_from(n, sep, k) ==
    LET seps == { j \in k..Len(n) : n[j] = sep }
    IN  IF seps = { }
        THEN << SubSeq(n, k, Len(n)) >>
        ELSE LET j == CHOOSE j \in seps : \A h \in seps : j <= h
             IN  << SubSeq(n, k, j - 1) >> \o split_from(n, sep, j + 1)

split(n, sep) == split_from(n, sep, 1)

\* sep.join(l)
RECURSIVE join(_, _)
join(sep, l) ==
    IF Len(l) = 0
    THEN << >>
    ELSE IF Len(l) = 1
    THEN l[1]
    ELSE l[1] \o sep \o join(sep, Tail(l))

\* range(x, y) as a list
range(x, y) == [k \in 1..(y - x) |-> x + k - 1]

\* l.sort() on a list of int: ascending
RECURSIVE int_sort(_)
int_sort(l) ==
    IF Len(l) = 0
    THEN << >>
    ELSE LET k == CHOOSE k \in 1..Len(l) : \A j \in 1..Len(l) : l[k] <= l[j]
         IN  << l[k] >> \o int_sort(SubSeq(l, 1, k - 1) \o SubSeq(l, k + 1, Len(l)))

RECURSIVE concat(_)
concat(ls) == IF Len(ls) = 0 THEN << >> ELSE Head(ls) \o concat(Tail(ls))

-----------------------------------------------------------------------------
(* socktest.py: the port table and the inputs. *)

portlist ==
    <<
      [port |-> 7, names |-> << << "e", "c", "h", "o" >> >>],
      [port |-> 20, names |-> << << "f", "t", "p" >> >>],
      [port |-> 21, names |-> << << "f", "t", "p" >> >>],
      [port |-> 22, names |-> << << "s", "s", "h" >>, << "s", "c", "p" >> >>],
      [port |-> 23, names |-> << << "t", "e", "l", "n", "e", "t" >> >>],
      [port |-> 25, names |-> << << "s", "m", "t", "p" >> >>],
      [port |-> 53, names |-> << << "d", "n", "s" >> >>],
      [port |-> 67, names |-> << << "d", "h", "c", "p" >>, << "b", "o", "o", "t", "p" >> >>],
      [port |-> 68, names |-> << << "d", "h", "c", "p" >>, << "b", "o", "o", "t", "p" >> >>],
      [port |-> 80, names |-> << << "h", "t", "t", "p" >> >>],
      [port |-> 88, names |-> << << "k", "e", "r", "b", "e", "r", "o", "s" >>, << "k", "r", "b" >> >>],
      [port |-> 110, names |-> << << "p", "o", "p", "3" >> >>],
      [port |-> 123, names |-> << << "n", "t", "p" >>, << "t", "i", "m", "e" >> >>],
      [port |-> 143, names |-> << << "i", "m", "a", "p" >>, << "i", "m", "a", "p", "4" >> >>],
      [port |-> 389, names |-> << << "l", "d", "a", "p" >> >>],
      [port |-> 443, names |-> << << "h", "t", "t", "p", "s" >> >>],
      [port |-> 464, names |-> << << "k", "e", "r", "b", "e", "r", "o", "s" >>, << "k", "r", "b" >> >>],
      [port |-> 465, names |-> << << "s", "m", "t", "p", "s" >> >>],
      [port |-> 500, names |-> << << "i", "s", "a", "k", "m", "p" >> >>],
      [port |-> 515, names |-> << << "l", "p", "d" >>, << "l", "p", "r" >> >>],
      [port |-> 587, names |-> << << "s", "m", "t", "p", "s" >>, << "t", "l", "s" >> >>],
      [port |-> 631, names |-> << << "c", "u", "p", "s", "d" >> >>],
      [port |-> 636, names |-> << << "l", "d", "a", "p", "s" >> >>],
      [port |-> 989, names |-> << << "f", "t", "p", "s" >> >>],
      [port |-> 990, names |-> << << "f", "t", "p", "s" >> >>],
      [port |-> 993, names |-> << << "i", "m", "a", "p", "s" >>, << "i", "m", "a", "p", "4", "s" >> >>],
      [port |-> 995, names |-> << << "p", "o", "p", "s" >>, << "p", "o", "p", "3", "s" >> >>],
      [port |-> 1194, names |-> << << "o", "v", "p", "n" >>, << "o", "p", "e", "n", "v", "p", "n" >> >>],
      [port |-> 1701, names |-> << << "l", "2", "t", "p" >> >>],
      [port |-> 1723, names |-> << << "p", "p", "t", "p" >> >>],
      [port |-> 2049, names |-> << << "n", "f", "s" >> >>],
      [port |-> 2483, names |-> << << "o", "r", "a" >> >>],
      [port |-> 2484, names |-> << << "o", "r", "a" >> >>],
      [port |-> 3389, names |-> << << "r", "d", "p" >>, << "t", "s" >> >>],
      [port |-> 5900, names |-> << << "v", "n", "c" >> >>],
      [port |-> 8080, names |-> << << "h", "t", "t", "p" >>, << "p", "r", "o", "x", "y" >> >>]
    >>

\* the keys of portlist, in the order of the dict
portlist_keys == [k \in 1..Len(portlist) |-> portlist[k].port]

\* number of comma-separated port specifications of the target
MaxSpecs == 2

\* delays given on the command line, in seconds
Delays == { 0, 1 }

\* port specifications: a number, ranges <x>-<y> with y > x, y < x and y = x,
\* a name of two ports written with a capital, an unknown name, the empty
\* specification and a range without its <x>
PortSpecs ==
    { << "2", "2" >>,
      << "2", "0", "-", "2", "2" >>,
      << "2", "2", "-", "2", "0" >>,
      << "2", "1", "-", "2", "1" >>,
      << "F", "t", "p" >>,
      << "f", "o", "o" >>,
      << >>,
      << "-", "2", "2" >> }

\* <hostname>:<port>[,<port>...] and a target without colon
Targets ==
    { << "h", ":" >> \o join(<< "," >>, specs) :
        specs \in UNION { [1..k -> PortSpecs] : k \in 1..MaxSpecs } }
    \cup { << "h" >> }

\* the argparse namespaces; target is << >> when the positional is absent
\* (None) and << str >> when it is given
CommandLinesSock ==
    [verbose : BOOLEAN, printopen : BOOLEAN, printlist : BOOLEAN,
     target : { << >> } \cup { << x >> : x \in Targets }, delay : Delays]

-----------------------------------------------------------------------------
(* socktest.py: the functions. *)

\* what the script does, in order: time.sleep(n), s.connect((rhost, n)) and
\* print of a message
sleep_ev(n) == [ev |-> "sleep", n |-> n, msg |-> ""]
connect_ev(n) == [ev |-> "connect", n |-> n, msg |-> ""]
print_ev(msg, n) == [ev |-> "print", n |-> n, msg |-> msg]

\* checkPort(n): the list returned, or exit(1), or the ValueError of int()
checkPort(n) ==
    IF isdigit(n)
    THEN [status |-> "return", l |-> << int(n) >>, out |-> << >>]
    ELSE IF \E k \in 1..Len(n) : n[k] = "-"
    THEN LET parts == split(n, "-")
         IN  IF \E k \in 1..Len(parts) : int_raises(parts[k])
             THEN [status |-> "ValueError", l |-> << >>, out |-> << >>]
             ELSE LET x == [k \in 1..Len(parts) |-> int(parts[k])]
                  IN  IF x[1] > x[2]
                      THEN [status |-> "exit(1)", l |-> << >>,
                            out |-> << print_ev("Invalid range given!", 0) >>]
                      ELSE [status |-> "return",
                            l |-> range(x[1], x[2]) \o << x[2] >>,
                            out |-> << >>]
    ELSE IF lower(n) = << "a", "l", "l" >>
    THEN [status |-> "return", l |-> portlist_keys, out |-> << >>]
    ELSE IF isalnum(n)
    THEN LET x == SelectSeq(portlist_keys,
                     LAMBDA p : \E k \in 1..Len(portlist) :
                         /\ portlist[k].port = p
                         /\ \E j \in 1..Len(portlist[k].names) :
                                portlist[k].names[j] = lower(n))
         IN  IF Len(x) < 1
             THEN [status |-> "exit(1)", l |-> << >>,
                   out |-> << print_ev("Port name not known!", 0) >>]
             ELSE [status |-> "return", l |-> x, out |-> << >>]
    ELSE [status |-> "exit(1)", l |-> << >>,
          out |-> << print_ev("Invalid port specification:", 0) >>]

\* testConnection without the list of tested ports
testConnection_again(rport, connects, tlist, a) ==
    [ret |-> IF connects THEN "True" ELSE "False",
     t |-> Append(tlist, rport),
     out |-> (IF a.printopen THEN << >> ELSE << print_ev("trying", rport) >>)
             \o << connect_ev(rport) >>
             \o (IF connects THEN << print_ev("connected", rport) >> ELSE << >>)]

\* testConnection(rhost, rport) when the connection succeeds (connects) or
\* raises socket.error; tlist is the global t, a is args
testConnection(rport, connects, tlist, a) ==
    IF \E k \in 1..Len(tlist) : tlist[k] = rport
    THEN [ret |-> "None", t |-> tlist, out |-> << >>]
    ELSE [ret |-> IF connects THEN "True" ELSE "False",
          t |-> Append(tlist, rport),
          out |-> (IF a.printopen THEN << >> ELSE << print_ev("trying", rport) >>)
                  \o << connect_ev(rport) >>
                  \o (IF connects
                      THEN (IF a.printopen
                            THEN << print_ev("trying", rport) >> ELSE << >>)
                           \o << print_ev("connected", rport) >>
                           \o (IF a.verbose
                               THEN << print_ev("{lhost:lport<->rhost:rport}", rport) >>
                               ELSE << >>)
                      ELSE IF a.verbose
                      THEN << print_ev("socket.error", rport) >>
                      ELSE IF a.printopen
                      THEN << >>
                      ELSE << print_ev("failed", rport) >>)]

-----------------------------------------------------------------------------
(* socktest.py: the script. *)

InitSock ==
    /\ st_args \in CommandLinesSock
    /\ dport = << >>
    /\ port = << >>
    /\ tested = << >>
    /\ st_log = << >>
    /\ st_result = "None"
    /\ st_failed = FALSE
    /\ st_n = 1
    /\ st_pc = "main"
    /\ fpu_idle /\ cb_idle /\ cf_idle

\* the script up to the loop over the ports: the initial checks, the split of
\* the target, checkPort on each specification and the sort
socktest_main ==
    /\ st_pc = "main"
    /\ LET a == st_args
           protocols == IF a.printlist THEN << print_ev("printList", 0) >> ELSE << >>
           pieces == IF a.target = << >> THEN << >> ELSE split(a.target[1], ":")
           d == pieces[2]
           comma == \E k \in 1..Len(d) : d[k] = ","
           specs == IF comma THEN split(d, ",") ELSE << d >>
           r == [k \in 1..Len(specs) |-> checkPort(specs[k])]
           stops == { k \in 1..Len(specs) : r[k].status # "return" }
           stop == CHOOSE k \in stops : \A j \in stops : k <= j
           sorted == int_sort(concat([k \in 1..Len(specs) |-> r[k].l]))
       IN  IF a.verbose /\ a.printopen
           THEN /\ st_log' = << print_ev("Please use only one of --open and --verbose", 0) >>
                /\ st_pc' = "exit(1)"
                /\ UNCHANGED << dport, port >>
           ELSE IF a.target = << >>
           THEN /\ st_log' = protocols \o (IF a.printlist THEN << >>
                                         ELSE << print_ev("usage", 0) >>)
                /\ st_pc' = "exit(2)"
                /\ UNCHANGED << dport, port >>
           ELSE IF Len(pieces) # 2
           THEN /\ st_log' = protocols \o << print_ev("help", 0) >>
                /\ st_pc' = "exit(2)"
                /\ UNCHANGED << dport, port >>
           ELSE IF stops # { }
           THEN /\ st_log' = protocols \o r[stop].out
                /\ st_pc' = r[stop].status
                /\ dport' = (IF comma THEN specs ELSE d)
                /\ port' = concat([k \in 1..(stop - 1) |-> r[k].l])
           ELSE IF Len(sorted) = 0
           THEN /\ st_log' = protocols
                       \o << print_ev("Unable to decypher port specifications!", 0) >>
                /\ st_pc' = "exit(3)"
                /\ dport' = (IF comma THEN specs ELSE d)
                /\ port' = sorted
           ELSE /\ st_log' = protocols
                /\ st_pc' = "for"
                /\ dport' = (IF comma THEN specs ELSE d)
                /\ port' = sorted
    /\ UNCHANGED << st_args, tested, st_result, st_failed, st_n >>
    /\ UNCHANGED << fpu_vars, cb_vars, cf_vars >>

\* one turn of "for p in port": the sleep and the call of testConnection
socktest_for ==
    /\ st_pc = "for"
    /\ \E connects \in BOOLEAN :
           LET r == testConnection(port[st_n], connects, tested, st_args)
           IN  /\ st_log' = st_log \o << sleep_ev(st_args.delay) >> \o r.out
               /\ tested' = r.t
               /\ st_result' = r.ret
               /\ st_failed' = (st_failed \/ r.ret = "False")
    /\ st_n' = st_n + 1
    /\ st_pc' = IF st_n = Len(port) THEN "exit(0)" ELSE "for"
    /\ UNCHANGED << st_args, dport, port >>
    /\ UNCHANGED << fpu_vars, cb_vars, cf_vars >>

\* the user interrupts the loop: KeyboardInterrupt
socktest_KeyboardInterrupt ==
    /\ st_pc = "for"
    /\ st_log' = st_log \o << print_ev("", 0), print_ev("User cancelled", 0) >>
    /\ st_pc' = "exit()"
    /\ UNCHANGED << st_args, dport, port, tested, st_result, st_failed, st_n >>
    /\ UNCHANGED << fpu_vars, cb_vars, cf_vars >>

NextSock ==
    \/ socktest_main
    \/ socktest_for
    \/ socktest_KeyboardInterrupt

SpecSock == InitSock /\ [][NextSock]_vars

-----------------------------------------------------------------------------
(* socktest.py: vocabulary of the claims. *)

\* the ports s.connect was called with, in order
attempted ==
    LET connects == SelectSeq(st_log, LAMBDA e : e.ev = "connect")
    IN  [k \in 1..Len(connects) |-> connects[k].n]

\* the distinct elements of l in ascending order
distinct_ascending(l) ==
    LET S == { l[k] : k \in 1..Len(l) }
    IN  CHOOSE s \in [1..Cardinality(S) -> S] :
            \A a, b \in 1..Cardinality(S) : a < b => s[a] < s[b]

\* the script sleeps args.delay seconds right before the event k of the log,
\* prints aside
slept_before(k) ==
    \E j \in 1..(k - 1) :
        /\ st_log[j] = sleep_ev(st_args.delay)
        /\ \A h \in (j + 1)..(k - 1) : st_log[h].ev = "print"

\* the script has passed its initial checks with a target of one port
\* specification, which checkPort has been called with
one_specification ==
    /\ st_pc # "main"
    /\ ~ (st_args.verbose /\ st_args.printopen)
    /\ st_args.target # << >>
    /\ Len(split(st_args.target[1], ":")) = 2
    /\ \A k \in 1..Len(st_args.target[1]) : st_args.target[1][k] # ","

\* n is <x>-<y> with x and y numeric
is_range(n) ==
    /\ Len(split(n, "-")) = 2
    /\ \A k \in 1..2 : isdigit(split(n, "-")[k])

range_x(n) == int(split(n, "-")[1])

range_y(n) == int(split(n, "-")[2])

\* the loop over the ports has been entered
testing == st_pc \in { "for", "exit(0)", "exit()" }

(* C13: in a run of socktest.py every distinct port obtained from the target
   is attempted exactly once, in ascending order, each attempt right after a
   sleep of the delay; a failed attempt neither ends the run nor is repeated,
   and a port listed twice is attempted once. *)
C13_EachPortOnceAscending ==
    testing =>
        \A distinct \in { distinct_ascending(port) } :
            /\ Len(attempted) <= Len(distinct)
            /\ attempted = SubSeq(distinct, 1, Len(attempted))
            /\ tested = attempted
            /\ st_pc = "exit(0)" => attempted = distinct
            /\ \A k \in 1..Len(st_log) : st_log[k].ev = "connect" => slept_before(k)

\* a run to the end with a delay, a port listed twice, and a failed attempt
\* followed by a successful one
C13_Witness ==
    /\ st_pc = "exit(0)"
    /\ st_args.delay > 0
    /\ Len(port) > Len(attempted)
    /\ st_failed
    /\ st_result = "True"

(* C18: checkPort returns [n] for a number n; for <x>-<y> it returns x..y when
   y > x and otherwise prints 'Invalid range given!' and exits with status 1. *)
C18_RangeOnlyWhenGreater ==
    one_specification =>
        IF isdigit(dport)
        THEN testing /\ port = << int(dport) >>
        ELSE IF is_range(dport)
        THEN IF range_y(dport) > range_x(dport)
             THEN /\ testing
                  /\ port = [k \in 1..(range_y(dport) - range_x(dport) + 1) |->
                                range_x(dport) + k - 1]
             ELSE /\ st_pc = "exit(1)"
                  /\ st_log[Len(st_log)] = print_ev("Invalid range given!", 0)
        ELSE TRUE

-----------------------------------------------------------------------------
(* check-bugs.py: the inputs. *)

\* number of bugs returned by pybugz
MaxBugs == 3

\* what line_atom finds in a summary: [] when nothing looks like an atom,
\* else the text matched, as category/package, version and what follows:
\* 'app-misc/foo', 'app-misc/foo-1.0', 'dev-util/bar:' and 'app-misc/foo-1.0,'
Summaries ==
    { << >>,
      << [op |-> "", cp |-> AtomPool[1], pv |-> "", tail |-> ""] >>,
      << [op |-> "", cp |-> AtomPool[1], pv |-> "1.0", tail |-> ""] >>,
      << [op |-> "", cp |-> AtomPool[2], pv |-> "", tail |-> ":"] >>,
      << [op |-> "", cp |-> AtomPool[1], pv |-> "1.0", tail |-> ","] >> }

\* the tuples get_bugz_output() returns; the id of a bug is its rank
BugLists ==
    UNION { { [k \in 1..n |-> [id |-> k, summary |-> ss[k]]] :
                ss \in [1..n -> Summaries] } :
            n \in 0..MaxBugs }

\* the maintainer emails of a metadata.xml
MaintainerEmails ==
    { << >>, << dev_address >>, << outside_address, dev_address >> }

\* the Portage trees: what cp_all() lists and, for every package listed, the
\* emails of its metadata.xml
PortageTrees ==
    UNION { { [cp_all |-> [k \in 1..n |-> AtomPool[k]], maintainers |-> m] :
                m \in [{ AtomPool[k] : k \in 1..n } -> MaintainerEmails] } :
            n \in 0..NumAtoms }

\* the argparse namespaces: --address is '' when it is not given
CommandLinesBugs == [address : { EmptyStr, dev_address }]

-----------------------------------------------------------------------------
(* check-bugs.py: the functions. *)

\* dep.isvalidatom(atom): a category/package without version and without
\* operator, or with both, and nothing after it
isvalidatom(atom) == atom.tail = "" /\ (atom.op = "=" <=> atom.pv # "")

\* dep.isjustname(atom): no version
isjustname(atom) == atom.pv = ""

\* portage.getCPFromCPV(atom)
getCPFromCPV(atom) == [atom EXCEPT !.pv = ""]

\* find_atom with "if not package_list" for "if package_list is None"
find_atom_refetch(summary, plist, db) ==
    IF Len(summary) = 0
    THEN [ret |-> << >>, package_list |-> plist, fetched |-> 0]
    ELSE LET match == summary[1]
             atom == IF match.tail = ":" THEN [match EXCEPT !.tail = ""] ELSE match
         IN  IF ~ isvalidatom(atom) /\ ~ isvalidatom([atom EXCEPT !.op = "="])
             THEN [ret |-> << >>, package_list |-> plist, fetched |-> 0]
             ELSE LET cp == IF ~ isjustname(atom) THEN getCPFromCPV(atom) ELSE atom
                      fetch == plist = << >> \/ plist = << << >> >>
                      list == IF fetch THEN db.cp_all ELSE plist[1]
                  IN  [ret |-> IF \E k \in 1..Len(list) : list[k] = cp.cp
                               THEN << cp.cp >> ELSE << >>,
                       package_list |-> << list >>,
                       fetched |-> IF fetch THEN 1 ELSE 0]

\* find_atom(summary) with the global package_list being plist (<< >> for
\* None, << l >> for the list l) and portage.portdb being db: what it returns
\* (<< >> for None, << atom >> for an atom), the package_list it leaves and
\* how many times it called cp_all()
find_atom(summary, plist, db) ==
    IF Len(summary) = 0
    THEN [ret |-> << >>, package_list |-> plist, fetched |-> 0]
    ELSE LET match == summary[1]
             atom == IF match.tail = ":" THEN [match EXCEPT !.tail = ""] ELSE match
         IN  IF ~ isvalidatom(atom) /\ ~ isvalidatom([atom EXCEPT !.op = "="])
             THEN [ret |-> << >>, package_list |-> plist, fetched |-> 0]
             ELSE LET cp == IF ~ isjustname(atom) THEN getCPFromCPV(atom) ELSE atom
                      fetch == plist = << >>
                      list == IF fetch THEN db.cp_all ELSE plist[1]
                  IN  [ret |-> IF \E k \in 1..Len(list) : list[k] = cp.cp
                               THEN << cp.cp >> ELSE << >>,
                       package_list |-> << list >>,
                       fetched |-> IF fetch THEN 1 ELSE 0]

\* get_maintainers(atom) of check-bugs.py
get_maintainers(atom, db) == db.maintainers[atom]

\* a line of output: its text and what is formatted into it
out_line(text, n, atom, a, cc) ==
    [text |-> text, n |-> n, atom |-> atom, a |-> a, cc |-> cc]

\* the lines printed for one element of printable_bugs
print_bug(b) ==
    << out_line("row", b.bug.id, b.atom, b.maintainers[1], Tail(b.maintainers)),
       out_line("summary", b.bug.id, << >>, << >>, << >>),
       out_line("https://bugs.gentoo.org/", b.bug.id, << >>, << >>, << >>),
       IF Len(b.maintainers) > 1
       THEN out_line("bugz modify", b.bug.id, << >>, b.maintainers[1],
                     Tail(b.maintainers))
       ELSE out_line("bugz modify", b.bug.id, << >>, b.maintainers[1], << >>),
       out_line("", 0, << >>, << >>, << >>) >>

-----------------------------------------------------------------------------
(* check-bugs.py: the script. Every package cp_all() lists has a metadata.xml
   under /usr/portage. *)

InitBugs ==
    /\ cb_args \in CommandLinesBugs
    /\ bugz_output \in BugLists
    /\ portdb \in PortageTrees
    /\ package_list = << >>
    /\ fetches = 0
    /\ found = << >>
    /\ printable_bugs = << >>
    /\ cb_out = << >>
    /\ cb_n = 1
    /\ cb_pc = "for"
    /\ fpu_idle /\ st_idle /\ cf_idle

\* one turn of "for bug in bugz_output"
check_bugs_for ==
    /\ cb_pc = "for"
    /\ cb_n <= Len(bugz_output)
    /\ LET bug == bugz_output[cb_n]
           r == find_atom(bug.summary, package_list, portdb)
           listed == get_maintainers(r.ret[1], portdb)
           m == IF Len(listed) = 0 THEN << maintainer_needed, EmptyStr >> ELSE listed
       IN  /\ package_list' = r.package_list
           /\ fetches' = fetches + r.fetched
           /\ found' = Append(found, r.ret)
           /\ printable_bugs' =
                  IF r.ret = << >>
                  THEN printable_bugs
                  ELSE IF cb_args.address # EmptyStr
                          /\ \A k \in 1..Len(m) : m[k] # cb_args.address
                  THEN printable_bugs
                  ELSE Append(printable_bugs,
                              [atom |-> r.ret[1], bug |-> bug, maintainers |-> m])
    /\ cb_n' = cb_n + 1
    /\ UNCHANGED << cb_args, bugz_output, portdb, cb_out, cb_pc >>
    /\ UNCHANGED << fpu_vars, st_vars, cf_vars >>

\* main() after the loop: the report, and the note on the bugs left out.
\* unmatched is bound only when there is a bug to print
check_bugs_report ==
    /\ cb_pc = "for"
    /\ cb_n > Len(bugz_output)
    /\ IF Len(printable_bugs) > 0
       THEN LET unmatched == Len(bugz_output) - Len(printable_bugs)
            IN  /\ cb_out' =
                       << out_line("Bug Atom Assignee Maintainers", 0, << >>, << >>, << >>) >>
                       \o concat([k \in 1..Len(printable_bugs) |->
                                     print_bug(printable_bugs[k])])
                       \o (IF unmatched > 0
                           THEN << out_line("Note: bugs couldn't be parsed",
                                            unmatched, << >>, << >>, << >>),
                                   out_line("", 0, << >>, << >>, << >>) >>
                           ELSE << >>)
                /\ cb_pc' = "return"
       ELSE /\ cb_out' =
                   << IF cb_args.address # EmptyStr
                      THEN out_line("No parseable bugs found for", 0, << >>,
                                    cb_args.address, << >>)
                      ELSE out_line("No parseable bugs found", 0, << >>, << >>, << >>),
                      out_line("", 0, << >>, << >>, << >>) >>
            /\ cb_pc' = "UnboundLocalError"
    /\ UNCHANGED << cb_args, bugz_output, portdb, package_list, fetches, found,
                    printable_bugs, cb_n >>
    /\ UNCHANGED << fpu_vars, st_vars, cf_vars >>

NextBugs ==
    \/ check_bugs_for
    \/ check_bugs_report

SpecBugs == InitBugs /\ [][NextBugs]_vars

-----------------------------------------------------------------------------
(* check-bugs.py: vocabulary of the claims. *)

\* main() has ended, by returning or by an exception
reported == cb_pc \in { "return", "UnboundLocalError" }

\* the lines of output with the given text
lines_of(text) == SelectSeq(cb_out, LAMBDA l : l.text = text)

\* the text line_atom finds in the summary is an atom once a ':' at its end is
\* removed, so that find_atom goes up to the test "atom in package_list"
reaches_package_list(summary) ==
    Len(summary) = 1 /\ summary[1].tail \in { "", ":" }

(* C14: for a bug whose package has no maintainer the command printed assigns
   to maintainer-needed@gentoo.org and has no --add-cc; for a package with
   maintainers it assigns to the first and has one --add-cc for each of the
   others, in order. *)
C14_NoMaintainerNoAddCc ==
    reported =>
        \A k \in 1..Len(printable_bugs) :
            \A m \in { get_maintainers(printable_bugs[k].atom, portdb) } :
            \A l \in { lines_of("bugz modify")[k] } :
                /\ l.n = printable_bugs[k].bug.id
                /\ IF Len(m) = 0
                   THEN l.a = maintainer_needed /\ l.cc = << >>
                   ELSE l.a = m[1] /\ l.cc = Tail(m)

(* C15: main() ends by returning, whatever the bugs and the --address; with
   no bug to print it prints 'No parseable bugs found'; the note "N bugs
   couldn't be parsed" is printed exactly when more bugs were returned than
   printed, N being the difference. *)
C15_MainReturns ==
    reported =>
        /\ cb_pc = "return"
        /\ Len(printable_bugs) = 0 =>
               Len(lines_of("No parseable bugs found"))
                   + Len(lines_of("No parseable bugs found for")) = 1
        /\ \A notes \in { lines_of("Note: bugs couldn't be parsed") } :
               IF Len(bugz_output) > Len(printable_bugs)
               THEN /\ Len(notes) = 1
                    /\ notes[1].n = Len(bugz_output) - Len(printable_bugs)
               ELSE Len(notes) = 0

(* C17: cp_all() is called at most once, by the first call of find_atom that
   reaches the test "atom in package_list" and by no call that returns None
   before it; package_list then holds what cp_all() listed and is not changed
   again; every atom find_atom returns is in package_list, and find_atom
   returns what it would return with package_list not yet built. *)
C17_PackageListBuiltOnce ==
    /\ fetches <= 1
    /\ fetches = 1 <=>
           \E k \in 1..Len(found) : reaches_package_list(bugz_output[k].summary)
    /\ package_list = IF fetches = 0 THEN << >> ELSE << portdb.cp_all >>
    /\ \A k \in 1..Len(found) :
           /\ found[k] # << >> =>
                  \E j \in 1..Len(package_list[1]) : package_list[1][j] = found[k][1]
           /\ found[k] = find_atom(bugz_output[k].summary, << >>, portdb).ret

\* three calls: the first returns None before the test, the second builds the
\* list, the third finds it built; both return an atom
C17_Witness ==
    /\ Len(found) = 3
    /\ ~ reaches_package_list(bugz_output[1].summary)
    /\ found[2] # << >>
    /\ found[3] # << >>
    /\ fetches = 1

-----------------------------------------------------------------------------
(* check-files.py: the Python str and re calls it makes. *)

\* the characters \s matches
Whitespace == { " ", "\t", "\n" }

\* sub occurs in s at its character k
has_at(s, sub, k) ==
    /\ k + Len(sub) - 1 <= Len(s)
    /\ \A j \in 1..Len(sub) : s[k + j - 1] = sub[j]

\* s.replace(old, new), from the character k of s on
RECURSIVE replace_from(_, _, _, _)
replace_from(s, old, new, k) ==
    IF k > Len(s)
    THEN << >>
    ELSE IF has_at(s, old, k)
    THEN new \o replace_from(s, old, new, k + Len(old))
    ELSE << s[k] >> \o replace_from(s, old, new, k + 1)

replace(s, old, new) == replace_from(s, old, new, 1)

\* the last character of the run of digits of s that starts at k
digits_end(s, k) ==
    CHOOSE e \in k..Len(s) :
        /\ \A j \in k..e : is_digit(s[j])
        /\ e = Len(s) \/ ~ is_digit(s[e + 1])

\* the last character of the run of \S characters of s that starts at k
nonspace_end(s, k) ==
    CHOOSE e \in k..Len(s) :
        /\ \A j \in k..e : s[j] \notin Whitespace
        /\ e = Len(s) \/ s[e + 1] \in Whitespace

\* re.sub('-r\d+', '', P), from the character k of P on
RECURSIVE sub_revision_from(_, _)
sub_revision_from(P, k) ==
    IF k > Len(P)
    THEN << >>
    ELSE IF has_at(P, << "-", "r" >>, k) /\ k + 2 <= Len(P) /\ is_digit(P[k + 2])
    THEN sub_revision_from(P, digits_end(P, k + 2) + 1)
    ELSE << P[k] >> \o sub_revision_from(P, k + 1)

\* where re.search('-\d.*', P) matches
version_at(P) ==
    CHOOSE k \in 1..(Len(P) - 1) :
        /\ P[k] = "-" /\ is_digit(P[k + 1])
        /\ \A j \in 1..(k - 1) : ~ (P[j] = "-" /\ is_digit(P[j + 1]))

\* re.match('\s*#', line)
is_comment(line) ==
    \E k \in 1..Len(line) :
        line[k] = "#" /\ \A j \in 1..(k - 1) : line[j] \in Whitespace

\* re.search('files\S+', line): << >> when there is no match, else the match
search_files(line) ==
    LET word == << "f", "i", "l", "e", "s" >>
        starts == { k \in 1..Len(line) :
                      /\ has_at(line, word, k)
                      /\ k + 5 <= Len(line)
                      /\ line[k + 5] \notin Whitespace }
    IN  IF starts = { }
        THEN << >>
        ELSE LET k == CHOOSE k \in starts : \A j \in starts : k <= j
             IN  SubSeq(line, k, nonspace_end(line, k + 5))

-----------------------------------------------------------------------------
(* check-files.py: the inputs. *)

\* number of ebuilds in the directory
MaxEbuilds == 2

\* ebuilds: one that patches with ${P}, one with a revision, a comment and a
\* file in a subdirectory of FILESDIR, one that names FILESDIR alone, and one
\* that needs no file
EbuildPool ==
    <<
      [name |-> << "f", "o", "o", "-", "1", ".", "0", ".", "e", "b", "u", "i",
                  "l", "d" >>,
       lines |->
         <<
            << "D", "E", "S", "C", "R", "I", "P", "T", "I", "O", "N", "=",
               "\"", "f", "o", "o", "\"", "\n" >>,
            << "\t", "e", "p", "a", "t", "c", "h", " ", "\"", "$", "{", "F",
               "I", "L", "E", "S", "D", "I", "R", "}", "/", "$", "{", "P",
               "}", "-", "f", "i", "x", ".", "p", "a", "t", "c", "h", "\"",
               "\n" >>
         >>],
      [name |-> << "f", "o", "o", "-", "1", ".", "1", "-", "r", "1", ".", "e",
                  "b", "u", "i", "l", "d" >>,
       lines |->
         <<
            << "\t", "#", " ", "e", "p", "a", "t", "c", "h", " ", "\"", "$",
               "{", "F", "I", "L", "E", "S", "D", "I", "R", "}", "/", "o",
               "l", "d", ".", "p", "a", "t", "c", "h", "\"", "\n" >>,
            << "\t", "d", "o", "i", "n", "s", " ", "\"", "$", "{", "F", "I",
               "L", "E", "S", "D", "I", "R", "}", "\"", "/", "c", "o", "n",
               "f", "/", "$", "{", "P", "N", "}", ".", "c", "o", "n", "f",
               "\n" >>
         >>],
      [name |-> << "f", "o", "o", "-", "1", ".", "2", ".", "e", "b", "u", "i",
                  "l", "d" >>,
       lines |->
         <<
            << "\t", "c", "p", " ", "-", "r", " ", "$", "{", "F", "I", "L",
               "E", "S", "D", "I", "R", "}", " ", "\"", "$", "{", "T", "}",
               "\"", "\n" >>
         >>],
      [name |-> << "f", "o", "o", "-", "1", ".", "3", ".", "e", "b", "u", "i",
                  "l", "d" >>,
       lines |->
         <<
            << "D", "E", "S", "C", "R", "I", "P", "T", "I", "O", "N", "=",
               "\"", "f", "o", "o", "\"", "\n" >>
         >>]
    >>

\* what os.listdir(directory) can yield: some ebuilds, in some order
EbuildLists ==
    UNION { { [k \in 1..n |-> EbuildPool[f[k]]] :
                f \in { g \in [1..n -> 1..Len(EbuildPool)] :
                          \A a, b \in 1..n : a # b => g[a] # g[b] } } :
            n \in 0..MaxEbuilds }

\* files that can exist below the directory
DiskPaths ==
    { << "f", "i", "l", "e", "s", "/", "f", "o", "o", "-", "1", ".", "0",
         "-", "f", "i", "x", ".", "p", "a", "t", "c", "h" >>,
      << "f", "i", "l", "e", "s", "/", "c", "o", "n", "f", "/", "f", "o",
         "o", ".", "c", "o", "n", "f" >>,
      << "f", "i", "l", "e", "s", "/", "o", "l", "d", ".", "p", "a", "t",
         "c", "h" >> }

\* the 'files' subdirectory: absent, or with some of the files
Disks ==
    { [isdir |-> FALSE, paths |-> { }] }
    \cup { [isdir |-> TRUE, paths |-> ps] : ps \in SUBSET DiskPaths }

\* the command lines: --debug and --quiet (show_output is args.quiet, which
\* --quiet stores False into)
CommandLinesFiles == [debug : BOOLEAN, quiet : BOOLEAN]

-----------------------------------------------------------------------------
(* check-files.py: the functions. *)

\* a line printed by print_out (stdout), print_err or print_dbg (stderr)
cf_line(text, arg) == [text |-> text, arg |-> arg]

\* print_out(message) under the global show_output
print_out(text, arg) == IF show_output THEN << cf_line(text, arg) >> ELSE << >>

\* print_dbg(message), message being str, under the global debug
print_dbg(text, arg) == IF debug THEN << cf_line(text, arg) >> ELSE << >>

\* P, PN and PV of an ebuild file name
ebuild_P(ebuild) == sub_revision_from(SubSeq(ebuild, 1, Len(ebuild) - 7), 1)

ebuild_PN(ebuild) == SubSeq(ebuild_P(ebuild), 1, version_at(ebuild_P(ebuild)) - 1)

ebuild_PV(ebuild) ==
    SubSeq(ebuild_P(ebuild), version_at(ebuild_P(ebuild)) + 1, Len(ebuild_P(ebuild)))

\* the line after the replacements of lines 85-90
substituted(line, ebuild) ==
    replace(
      replace(
        replace(
          replace(
            replace(
              replace(line,
                      << "$", "{", "F", "I", "L", "E", "S", "D", "I", "R", "}" >>,
                      << "f", "i", "l", "e", "s" >>),
              << "$", "{", "P", "}" >>, ebuild_P(ebuild)),
            << "$", "{", "P", "N", "}" >>, ebuild_PN(ebuild)),
          << "$", "{", "P", "V", "}" >>, ebuild_PV(ebuild)),
        << "\"" >>, << >>),
      << ".", "p", "a", "t", "c", "h", ")" >>, << ".", "p", "a", "t", "c", "h" >>)

\* the dict files as a list of items, in insertion order: files[P].append(v)
files_append(d, P, v) ==
    IF \E k \in 1..Len(d) : d[k].P = P
    THEN [k \in 1..Len(d) |->
            IF d[k].P = P THEN [d[k] EXCEPT !.l = Append(@, v)] ELSE d[k]]
    ELSE Append(d, [P |-> P, l |-> << v >>])

\* the body of "for line in open(...).readlines()" from the line k on: the
\* dict and the messages it leaves
RECURSIVE read_lines(_, _, _)
read_lines(ebuild, k, acc) ==
    IF k > Len(ebuild.lines)
    THEN acc
    ELSE LET line == ebuild.lines[k]
             new == substituted(line, ebuild.name)
             required_file == search_files(new)
         IN  IF ~ str_contains(<< "F", "I", "L", "E", "S", "D", "I", "R" >>, line)
                \/ is_comment(line)
             THEN read_lines(ebuild, k + 1, acc)
             ELSE IF required_file = << >>
             THEN read_lines(ebuild, k + 1,
                    [acc EXCEPT !.out = @ \o print_dbg("->", new)
                                  \o << cf_line("Error: Unable to get path from string:", new) >>])
             ELSE read_lines(ebuild, k + 1,
                    [files |-> files_append(acc.files, ebuild_P(ebuild.name), required_file),
                     out |-> acc.out \o print_dbg("->", new)])

\* [v for l in files.values() for v in l]
values_of(d) == concat([k \in 1..Len(d) |-> d[k].l])

RECURSIVE sum_len(_)
sum_len(l) == IF Len(l) = 0 THEN 0 ELSE Len(Head(l)) + sum_len(Tail(l))

\* os.path.isfile(os.path.join(directory, f))
isfile(f) == f \in disk.paths

\* the names os.listdir(files_dir_path) yields
listdir_files == { split(p, "/")[2] : p \in disk.paths }

\* lines 121-130: the packages in order, each with its files found or missing
RECURSIVE check_pkgs(_, _, _)
check_pkgs(d, file_list, k) ==
    IF k > Len(file_list)
    THEN [missing |-> 0, out |-> << >>]
    ELSE LET l == d[CHOOSE j \in 1..Len(d) : d[j].P = file_list[k]].l
             rest == check_pkgs(d, file_list, k + 1)
             lines == [j \in 1..Len(l) |->
                          IF ~ isfile(l[j])
                          THEN print_dbg("PATH NOT FOUND:", l[j])
                               \o print_out("missing:", l[j])
                          ELSE print_out("found:", l[j])]
         IN  [missing |-> Cardinality({ j \in 1..Len(l) : ~ isfile(l[j]) })
                              + rest.missing,
              out |-> print_out("pkg", file_list[k]) \o concat(lines) \o rest.out]

-----------------------------------------------------------------------------
(* check-files.py: the script. *)

InitFiles ==
    /\ \E a \in CommandLinesFiles : debug = a.debug /\ show_output = ~ a.quiet
    /\ ebuilds \in EbuildLists
    /\ disk \in Disks
    /\ files = << >>
    /\ missing_files = 0
    /\ not_required = << >>
    /\ cf_out = << >>
    /\ cf_n = 1
    /\ cf_pc = "check_files"
    /\ fpu_idle /\ st_idle /\ cb_idle

\* lines 63-66: a directory without ebuild raises RuntimeError, which main()
\* prints before it returns -1
check_files_enter ==
    /\ cf_pc = "check_files"
    /\ IF Len(ebuilds) = 0
       THEN /\ cf_out' = << cf_line("Error: Not a valid ebuild directory:", << >>) >>
            /\ cf_pc' = "RuntimeError"
       ELSE /\ cf_out' = cf_out
            /\ cf_pc' = "for"
    /\ UNCHANGED << debug, show_output, ebuilds, disk, files, missing_files,
                    not_required, cf_n >>
    /\ UNCHANGED << fpu_vars, st_vars, cb_vars >>

\* one turn of "for ebuild in ebuilds"
check_files_for ==
    /\ cf_pc = "for"
    /\ cf_n <= Len(ebuilds)
    /\ LET r == read_lines(ebuilds[cf_n], 1, [files |-> files, out |-> << >>])
       IN  /\ files' = r.files
           /\ cf_out' = cf_out \o r.out
    /\ cf_n' = cf_n + 1
    /\ UNCHANGED << debug, show_output, ebuilds, disk, missing_files,
                    not_required, cf_pc >>
    /\ UNCHANGED << fpu_vars, st_vars, cb_vars >>

\* lines 106-149: the count of the missing files and the list of the files no
\* longer required, os.listdir yielding the names in any order;
\* print_dbg(required_files) joins a list and raises TypeError under --debug
check_files_count ==
    /\ cf_pc = "for"
    /\ cf_n > Len(ebuilds)
    /\ \E files_dir \in Orders(listdir_files) :
         LET file_list == list_sort([k \in 1..Len(files) |-> files[k].P])
             required_files == values_of(files)
             checked == check_pkgs(files, file_list, 1)
             counted ==
                 IF Len(file_list) > 0
                 THEN IF ~ disk.isdir
                      THEN [missing |-> sum_len(required_files),
                            out |-> << [text |-> "Error: FILESDIR does not exist - files missing!",
                                        arg |-> << >>] >>]
                      ELSE checked
                 ELSE [missing |-> 0, out |-> << >>]
             paths == [k \in 1..Len(files_dir) |->
                          << "f", "i", "l", "e", "s", "/" >> \o files_dir[k]]
             listed == SelectSeq(paths,
                           LAMBDA path : \A k \in 1..Len(required_files) :
                                             required_files[k] # path)
         IN  /\ missing_files' = missing_files + counted.missing
             /\ IF debug
                THEN /\ cf_pc' = "TypeError"
                     /\ cf_out' = cf_out \o counted.out
                     /\ not_required' = not_required
                ELSE /\ cf_pc' = "return"
                     /\ not_required' = (IF disk.isdir THEN listed ELSE not_required)
                     /\ cf_out' = cf_out \o counted.out
                            \o (IF disk.isdir /\ Len(listed) > 0
                                THEN print_out("", << >>)
                                     \o print_out("The following files are no longer required:", << >>)
                                     \o concat([k \in 1..Len(listed) |->
                                                   print_out("file", listed[k])])
                                ELSE << >>)
    /\ UNCHANGED << debug, show_output, ebuilds, disk, files, cf_n >>
    /\ UNCHANGED << fpu_vars, st_vars, cb_vars >>

NextFiles ==
    \/ check_files_enter
    \/ check_files_for
    \/ check_files_count

SpecFiles == InitFiles /\ [][NextFiles]_vars

-----------------------------------------------------------------------------
(* check-files.py: vocabulary of the claims. *)

\* the files the ebuilds require, one for each line that names one
required == values_of(files)

\* how many of them are not on disk
missing_required ==
    Cardinality({ k \in 1..Len(required) : required[k] \notin disk.paths })

\* the entry path of 'files' is the required file r or a directory above it
is_or_contains(path, r) == r = path \/ has_at(r, path \o << "/" >>, 1)

\* the entry of 'files' named f
entry(f) == << "f", "i", "l", "e", "s", "/" >> \o f

(* C11: check_files returns the number of required files that are not on
   disk, with the 'files' subdirectory and without it, every required file
   then counting as one. *)
C11_ReturnsNumberMissing ==
    cf_pc = "return" => missing_files = missing_required

(* C12: an entry of 'files' is listed as no longer required exactly when no
   ebuild requires it: never when it is a required file or a directory that
   holds one, always otherwise. *)
C12_ListedIffNotRequired ==
    cf_pc = "return" /\ disk.isdir =>
        \A f \in listdir_files :
            (\E k \in 1..Len(not_required) : not_required[k] = entry(f))
                <=> ~ \E k \in 1..Len(required) : is_or_contains(entry(f), required[k])

====
